---- MODULE Spec2Model ----
(***************************************************************************)
(* Model of src/main.rs (DE_Approx): three fixed-step integrators          *)
(* (euler_method, improved_euler, runge_kutta), each present in a          *)
(* threaded_funcs copy (run on a spawned thread) and a serial_funcs copy   *)
(* (run on the main thread), and the main function that spawns, joins,     *)
(* times and reports them.                                                 *)
(*                                                                         *)
(* f64 values are modelled as integers; NaN is a distinguished value that  *)
(* every arithmetic operation propagates.  Products with the decimal       *)
(* literals 0.2 and 0.27 and the divisions h/2.0 and h/6.0 round to the    *)
(* integer grid.                                                           *)
(***************************************************************************)
EXTENDS Integers, Sequences, FiniteSets, TLC

\* ---------------------------------------------------------------- bounds
\* usize::MAX of the model (the width of `steps`), scaled down.
UsizeMax == 2
\* The largest reading of the clock time::precise_time_s().
MaxClock == 1
\* The largest step count handed to a single integrator invocation in SpecUnit.
MaxSteps == 3

\* ------------------------------------------------------------ f64 values
NaN == -999983

FAdd(a, b) == IF a = NaN \/ b = NaN THEN NaN ELSE a + b
FSub(a, b) == IF a = NaN \/ b = NaN THEN NaN ELSE a - b
FMul(a, b) == IF a = NaN \/ b = NaN THEN NaN ELSE a * b
\* y * (num/den) for a decimal literal num/den
FScale(num, den, y) == IF y = NaN THEN NaN ELSE (num * y) \div den

Isqrt(x) == CHOOSE r \in 0..x : r * r <= x /\ (r + 1) * (r + 1) > x
\* y.powf(1.5): NaN for a negative base
Powf15(y) == IF y = NaN \/ y < 0 THEN NaN ELSE y * Isqrt(y)

\* the closure `de` of main
De(t, y) == FSub(FSub(10, FScale(2, 10, y)), FScale(27, 100, Powf15(y)))
\* A variant with another coefficient.
regular_de_Coefficient(t, y) == FSub(FSub(10, FScale(2, 10, y)), FScale(72, 100, Powf15(y)))

\* serial_funcs::regular_de
regular_de(t, y) == FSub(FSub(10, FScale(2, 10, y)), FScale(27, 100, Powf15(y)))
\* a stand-in derivative function that reads both of its parameters and has a
\* bounded range
mod_ty(t, y) == IF t = NaN \/ y = NaN THEN NaN ELSE (t + y) % 7

\* The callables an integrator's parameter F is instantiated with.
DeFamily == {"de", "regular_de", "mod_ty"}
Apply(f, t, y) ==
    CASE f = "de" -> De(t, y)
      [] f = "regular_de" -> regular_de(t, y)
      [] f = "mod_ty" -> mod_ty(t, y)

Half(h) == h \div 2
Sixth(h) == h \div 6

\* ---------------------------------------------------------- step count
Abs(x) == IF x < 0 THEN 0 - x ELSE x
\* (a/b).round() for b # 0: to nearest, halves away from zero
RoundDiv(a, b) ==
    LET q == Abs(a) \div Abs(b)
        r == Abs(a) % Abs(b)
        m == IF 2 * r >= Abs(b) THEN q + 1 ELSE q
    IN IF (a < 0) = (b < 0) THEN m ELSE 0 - m
\* `x as usize` saturates: below 0 to 0, above usize::MAX to usize::MAX, NaN to 0
AsUsize(x) == IF x < 0 THEN 0 ELSE IF x > UsizeMax THEN UsizeMax ELSE x
\* ((T_END - T0)/H).round() as usize; a/0.0 is +inf, -inf or NaN
StepsOf(t0, tend, h) ==
    IF h = 0
    THEN (IF tend - t0 > 0 THEN UsizeMax ELSE 0)
    ELSE AsUsize(RoundDiv(tend - t0, h))

\* ------------------------------------------------------------ invocations
Threads == {"te", "th", "tr"}
Serials == {"se", "sh", "sr"}
Invs == Threads \cup Serials
Method(v) ==
    CASE v \in {"te", "se"} -> "euler"
      [] v \in {"th", "sh"} -> "heun"
      [] v \in {"tr", "sr"} -> "rk"
Label(v) ==
    CASE Method(v) = "euler" -> "Euler"
      [] Method(v) = "heun" -> "Heun"
      [] Method(v) = "rk" -> "Runge Kutta"

NoArgs == [y0 |-> 0, t0 |-> 0, steps |-> 0, h |-> 0, de |-> "de"]
None == <<>>

VARIABLES
    cfg,        \* the constants Y0, T0, T_END, H of main
    mpc,        \* main's position
    steps,      \* main's `steps`
    time,       \* main's `time`
    total,      \* main's `total`
    serialized, \* main's `serialized`
    answer,     \* euler_answer, heun_answer, runge_answer
    out,        \* the lines printed so far
    now,        \* the last reading of time::precise_time_s()
    args,       \* each invocation's parameters (y0, t0, steps, h, de)
    ipc,        \* each invocation's position
    start,      \* each invocation's `start`
    ycurrent, tcurrent, half_h, sixth_h,
    i,          \* each invocation's loop counter (the range 0..steps)
    k1, k2, k3, k4,
    ret,        \* each invocation's returned (ycurrent, end)
    calls,      \* history: evaluations of de by each invocation
    yI, tI,     \* history: ycurrent and tcurrent at the start of the iteration
    tadv,       \* history: how often each invocation advanced tcurrent
    finished    \* history: the order in which the threads finished

mainVars == <<cfg, mpc, steps, time, total, serialized, answer>>
locals == <<start, ycurrent, tcurrent, half_h, sixth_h, i, k1, k2, k3, k4>>
hist == <<calls, yI, tI, tadv>>
vars == <<cfg, mpc, steps, time, total, serialized, answer, out, now, args, ipc,
          start, ycurrent, tcurrent, half_h, sixth_h, i, k1, k2, k3, k4, ret,
          calls, yI, tI, tadv, finished>>

Zero == [v \in Invs |-> 0]

InitLocals ==
    /\ start = Zero /\ ycurrent = Zero /\ tcurrent = Zero
    /\ half_h = Zero /\ sixth_h = Zero /\ i = Zero
    /\ k1 = Zero /\ k2 = Zero /\ k3 = Zero /\ k4 = Zero
    /\ ret = [v \in Invs |-> None]
    /\ calls = Zero /\ yI = Zero /\ tI = Zero /\ tadv = Zero
    /\ finished = <<>>
    /\ now = 0
    /\ out = <<>>

\* The values the constants of main are set to: the time grid is 6 to the unit,
\* so that h/2.0 and h/6.0 are exact for the valid step sizes.
Config(tend, h) == [Y0 |-> 0, T0 |-> 0, T_END |-> tend, H |-> h]
Configs == {Config(6, 12), Config(12, 6), Config(12, 0), Config(12, -6), Config(0, 6)}

Init ==
    /\ cfg \in Configs
    /\ mpc = "start"
    /\ steps = 0 /\ time = 0 /\ total = 0 /\ serialized = 0
    /\ answer = [w \in Threads |-> None]
    /\ args = [v \in Invs |-> NoArgs]
    /\ ipc = [v \in Invs |-> "idle"]
    /\ InitLocals

\* ------------------------------------------------------------ integrators
Running == mpc # "panicked" /\ mpc # "exit"

\* let start = time::precise_time_s(); let mut ycurrent = y0; let mut tcurrent = t0;
\* let half_h = h/2.0; let sixth_h = h/6.0;
Enter(v) ==
    /\ Running /\ ipc[v] = "called"
    /\ \E s \in now..MaxClock :
        /\ now' = s
        /\ start' = [start EXCEPT ![v] = s]
    /\ ycurrent' = [ycurrent EXCEPT ![v] = args[v].y0]
    /\ tcurrent' = [tcurrent EXCEPT ![v] = args[v].t0]
    /\ half_h' = [half_h EXCEPT ![v] = IF Method(v) = "euler" THEN 0 ELSE Half(args[v].h)]
    /\ sixth_h' = [sixth_h EXCEPT ![v] = IF Method(v) = "rk" THEN Sixth(args[v].h) ELSE 0]
    /\ ipc' = [ipc EXCEPT ![v] = "loop"]
    /\ UNCHANGED <<mainVars, out, args, i, k1, k2, k3, k4, ret, hist, finished>>

\* A variant with an inclusive range.
LoopGuard_Inclusive(v) == i[v] <= args[v].steps

\* for _ in 0..steps
LoopGuard(v) == i[v] < args[v].steps

\* the first evaluation of an iteration: de(tcurrent, ycurrent)
EvalK1(v) ==
    /\ Running /\ ipc[v] = "loop" /\ LoopGuard(v)
    /\ k1' = [k1 EXCEPT ![v] = Apply(args[v].de, tcurrent[v], ycurrent[v])]
    /\ calls' = [calls EXCEPT ![v] = @ + 1]
    /\ yI' = [yI EXCEPT ![v] = ycurrent[v]]
    /\ tI' = [tI EXCEPT ![v] = tcurrent[v]]
    /\ ipc' = [ipc EXCEPT ![v] = "k1"]
    /\ UNCHANGED <<mainVars, out, now, args, start, ycurrent, tcurrent, half_h,
                   sixth_h, i, k2, k3, k4, ret, tadv, finished>>

\* A variant that evaluates the derivative at the advanced time.
EulerUpdY_TimeFirst(v) ==
    /\ Running /\ Method(v) = "euler" /\ ipc[v] = "k1"
    /\ ycurrent' = [ycurrent EXCEPT ![v] =
          FAdd(@, FMul(args[v].h, Apply(args[v].de, FAdd(tcurrent[v], args[v].h), @)))]
    /\ ipc' = [ipc EXCEPT ![v] = "upd_t"]
    /\ UNCHANGED <<mainVars, out, now, args, start, tcurrent, half_h, sixth_h,
                   i, k1, k2, k3, k4, ret, hist, finished>>

\* ycurrent += h*de(tcurrent,ycurrent);
EulerUpdY(v) ==
    /\ Running /\ Method(v) = "euler" /\ ipc[v] = "k1"
    /\ ycurrent' = [ycurrent EXCEPT ![v] = FAdd(@, FMul(args[v].h, k1[v]))]
    /\ ipc' = [ipc EXCEPT ![v] = "upd_t"]
    /\ UNCHANGED <<mainVars, out, now, args, start, tcurrent, half_h, sixth_h,
                   i, k1, k2, k3, k4, ret, hist, finished>>

\* A variant that predicts from a state already advanced within the iteration.
HeunArgs_Updated(v) ==
    <<FAdd(tcurrent[v], args[v].h),
      FAdd(FAdd(ycurrent[v], FMul(args[v].h, k1[v])), FMul(args[v].h, k1[v]))>>

\* de(tcurrent + h , ycurrent + h*k1)
HeunArgs(v) == <<FAdd(tcurrent[v], args[v].h), FAdd(ycurrent[v], FMul(args[v].h, k1[v]))>>

HeunK2(v) ==
    /\ Running /\ Method(v) = "heun" /\ ipc[v] = "k1"
    /\ k2' = [k2 EXCEPT ![v] = Apply(args[v].de, HeunArgs(v)[1], HeunArgs(v)[2])]
    /\ calls' = [calls EXCEPT ![v] = @ + 1]
    /\ ipc' = [ipc EXCEPT ![v] = "k2"]
    /\ UNCHANGED <<mainVars, out, now, args, start, ycurrent, tcurrent, half_h,
                   sixth_h, i, k1, k3, k4, ret, yI, tI, tadv, finished>>

\* A variant that evaluates de(tcurrent, ycurrent) again instead of reusing k1.
HeunUpdY_Reevaluate(v) ==
    /\ Running /\ Method(v) = "heun" /\ ipc[v] = "k2"
    /\ ycurrent' = [ycurrent EXCEPT ![v] =
          FAdd(@, FMul(half_h[v], FAdd(Apply(args[v].de, tcurrent[v], @), k2[v])))]
    /\ calls' = [calls EXCEPT ![v] = @ + 1]
    /\ ipc' = [ipc EXCEPT ![v] = "upd_t"]
    /\ UNCHANGED <<mainVars, out, now, args, start, tcurrent, half_h, sixth_h,
                   i, k1, k2, k3, k4, ret, yI, tI, tadv, finished>>

\* ycurrent += half_h*(k1 + de(...));
HeunUpdY(v) ==
    /\ Running /\ Method(v) = "heun" /\ ipc[v] = "k2"
    /\ ycurrent' = [ycurrent EXCEPT ![v] = FAdd(@, FMul(half_h[v], FAdd(k1[v], k2[v])))]
    /\ ipc' = [ipc EXCEPT ![v] = "upd_t"]
    /\ UNCHANGED <<mainVars, out, now, args, start, tcurrent, half_h, sixth_h,
                   i, k1, k2, k3, k4, ret, hist, finished>>

\* let k2 = de(tcurrent + half_h, ycurrent + half_h*k1);
RkArgs2(v) == <<FAdd(tcurrent[v], half_h[v]), FAdd(ycurrent[v], FMul(half_h[v], k1[v]))>>
\* A variant whose third stage reuses k1.
RkArgs3_K1(v) == <<FAdd(tcurrent[v], half_h[v]), FAdd(ycurrent[v], FMul(half_h[v], k1[v]))>>

\* let k3 = de(tcurrent + half_h, ycurrent + half_h*k2);
RkArgs3(v) == <<FAdd(tcurrent[v], half_h[v]), FAdd(ycurrent[v], FMul(half_h[v], k2[v]))>>
\* let k4 = de(tcurrent + h, ycurrent + h*k3);
RkArgs4(v) == <<FAdd(tcurrent[v], args[v].h), FAdd(ycurrent[v], FMul(args[v].h, k3[v]))>>

RkK2(v) ==
    /\ Running /\ Method(v) = "rk" /\ ipc[v] = "k1"
    /\ k2' = [k2 EXCEPT ![v] = Apply(args[v].de, RkArgs2(v)[1], RkArgs2(v)[2])]
    /\ calls' = [calls EXCEPT ![v] = @ + 1]
    /\ ipc' = [ipc EXCEPT ![v] = "k2"]
    /\ UNCHANGED <<mainVars, out, now, args, start, ycurrent, tcurrent, half_h,
                   sixth_h, i, k1, k3, k4, ret, yI, tI, tadv, finished>>

RkK3(v) ==
    /\ Running /\ Method(v) = "rk" /\ ipc[v] = "k2"
    /\ k3' = [k3 EXCEPT ![v] = Apply(args[v].de, RkArgs3(v)[1], RkArgs3(v)[2])]
    /\ calls' = [calls EXCEPT ![v] = @ + 1]
    /\ ipc' = [ipc EXCEPT ![v] = "k3"]
    /\ UNCHANGED <<mainVars, out, now, args, start, ycurrent, tcurrent, half_h,
                   sixth_h, i, k1, k2, k4, ret, yI, tI, tadv, finished>>

RkK4(v) ==
    /\ Running /\ Method(v) = "rk" /\ ipc[v] = "k3"
    /\ k4' = [k4 EXCEPT ![v] = Apply(args[v].de, RkArgs4(v)[1], RkArgs4(v)[2])]
    /\ calls' = [calls EXCEPT ![v] = @ + 1]
    /\ ipc' = [ipc EXCEPT ![v] = "k4"]
    /\ UNCHANGED <<mainVars, out, now, args, start, ycurrent, tcurrent, half_h,
                   sixth_h, i, k1, k2, k3, ret, yI, tI, tadv, finished>>

\* sixth_h*(k1 + 2.0*k2 + 2.0*k3 + k4)
RkIncrement(v) ==
    FMul(sixth_h[v],
         FAdd(FAdd(FAdd(k1[v], FMul(2, k2[v])), FMul(2, k3[v])), k4[v]))

\* ycurrent += sixth_h*(k1 + 2.0*k2 + 2.0*k3 + k4);
RkUpdY(v) ==
    /\ Running /\ Method(v) = "rk" /\ ipc[v] = "k4"
    /\ ycurrent' = [ycurrent EXCEPT ![v] = FAdd(@, RkIncrement(v))]
    /\ ipc' = [ipc EXCEPT ![v] = "upd_t"]
    /\ UNCHANGED <<mainVars, out, now, args, start, tcurrent, half_h, sixth_h,
                   i, k1, k2, k3, k4, ret, hist, finished>>

\* tcurrent += h; and the range's next element
UpdT(v) ==
    /\ Running /\ ipc[v] = "upd_t"
    /\ tcurrent' = [tcurrent EXCEPT ![v] = FAdd(@, args[v].h)]
    /\ tadv' = [tadv EXCEPT ![v] = @ + 1]
    /\ i' = [i EXCEPT ![v] = @ + 1]
    /\ ipc' = [ipc EXCEPT ![v] = "loop"]
    /\ UNCHANGED <<mainVars, out, now, args, start, ycurrent, half_h, sixth_h,
                   k1, k2, k3, k4, ret, calls, yI, tI, finished>>

\* let end = time::precise_time_s() - start; (println! in serial_funcs;) (ycurrent,end)
\* `start` goes out of scope with the return.
Exit(v) ==
    /\ Running /\ ipc[v] = "loop" /\ ~LoopGuard(v)
    /\ \E s \in now..MaxClock :
        /\ now' = s
        /\ ret' = [ret EXCEPT ![v] = <<ycurrent[v], s - start[v]>>]
        /\ out' = IF v \in Serials
                  THEN Append(out, <<Label(v), ycurrent[v], s - start[v]>>)
                  ELSE out
    /\ start' = [start EXCEPT ![v] = 0]
    /\ ipc' = [ipc EXCEPT ![v] = "done"]
    /\ finished' = IF v \in Threads THEN Append(finished, v) ELSE finished
    /\ UNCHANGED <<mainVars, args, ycurrent, tcurrent, half_h, sixth_h, i,
                   k1, k2, k3, k4, hist>>

InvStep(v) ==
    \/ Enter(v)
    \/ EvalK1(v)
    \/ EulerUpdY(v)
    \/ HeunK2(v)
    \/ HeunUpdY(v)
    \/ RkK2(v)
    \/ RkK3(v)
    \/ RkK4(v)
    \/ RkUpdY(v)
    \/ UpdT(v)
    \/ Exit(v)

\* A spawned thread terminates abnormally (its call of the callable F panics)
\* before it returns.
Abort(w) ==
    /\ Running /\ w \in Threads
    /\ ipc[w] = "loop" /\ LoopGuard(w)
    /\ ipc' = [ipc EXCEPT ![w] = "panicked"]
    /\ finished' = Append(finished, w)
    /\ UNCHANGED <<mainVars, out, now, args, locals, ret, hist>>

\* A variant that takes the end sample before the joins.
MainOrder_TotalFirst ==
    <<"start", "clock", "spawn_te", "spawn_th", "spawn_tr", "total",
      "join_te", "join_th", "join_tr",
      "serial_se", "serial_sh", "serial_sr", "report", "exit">>

\* ------------------------------------------------------------------ main
\* The statements of main, in program order.
MainOrder ==
    <<"start", "clock", "spawn_te", "spawn_th", "spawn_tr",
      "join_te", "join_th", "join_tr", "total",
      "serial_se", "serial_sh", "serial_sr", "report", "exit">>

PosOf(pc) == CHOOSE n \in 1..Len(MainOrder) : MainOrder[n] = pc
\* the statement that follows pc
After(pc) == MainOrder[PosOf(pc) + 1]
\* main has not yet executed the statement pc
Before(pc) == mpc \in {MainOrder[n] : n \in 1..PosOf(pc)}
\* main is past the statement pc
Past(pc) == mpc \in {MainOrder[n] : n \in (PosOf(pc) + 1)..Len(MainOrder)}

\* let steps = ((T_END - T0)/H).round() as usize; let de_share = Arc::new(de);
ComputeSteps ==
    /\ mpc = "start"
    /\ steps' = StepsOf(cfg.T0, cfg.T_END, cfg.H)
    /\ mpc' = After(mpc)
    /\ UNCHANGED <<cfg, time, total, serialized, answer, out, now, args, ipc,
                   locals, ret, hist, finished>>

\* let time = time::precise_time_s();
StartClock ==
    /\ mpc = "clock"
    /\ \E s \in now..MaxClock :
        /\ now' = s
        /\ time' = s
    /\ mpc' = After(mpc)
    /\ UNCHANGED <<cfg, steps, total, serialized, answer, out, args, ipc,
                   locals, ret, hist, finished>>

\* the parameters main passes to every integrator
CallArgs(f) == [y0 |-> cfg.Y0, t0 |-> cfg.T0, steps |-> steps, h |-> cfg.H, de |-> f]

\* let x_copy = de_share.clone(); let x_thread = thread::spawn(move || { ... });
Spawn(w) ==
    /\ mpc = "spawn_" \o w
    /\ args' = [args EXCEPT ![w] = CallArgs("de")]
    /\ ipc' = [ipc EXCEPT ![w] = "called"]
    /\ mpc' = After(mpc)
    /\ UNCHANGED <<cfg, steps, time, total, serialized, answer, out, now,
                   locals, ret, hist, finished>>

\* A variant that obtains a result only from the thread that finished last.
JoinOk_LastOnly(w) ==
    /\ mpc = "join_" \o w
    /\ ipc[w] = "done"
    /\ finished[Len(finished)] = w
    /\ answer' = [answer EXCEPT ![w] = ret[w]]
    /\ out' = Append(out, <<Label(w), ret[w][1], ret[w][2]>>)
    /\ mpc' = After(mpc)
    /\ UNCHANGED <<cfg, steps, time, total, serialized, now, args, ipc,
                   locals, ret, hist, finished>>

\* let x_answer = x_thread.join().unwrap(); println!(..., x_answer.0, x_answer.1);
JoinOk(w) ==
    /\ mpc = "join_" \o w
    /\ ipc[w] = "done"
    /\ answer' = [answer EXCEPT ![w] = ret[w]]
    /\ out' = Append(out, <<Label(w), ret[w][1], ret[w][2]>>)
    /\ mpc' = After(mpc)
    /\ UNCHANGED <<cfg, steps, time, total, serialized, now, args, ipc,
                   locals, ret, hist, finished>>

\* A variant that takes a default result for a thread that panicked.
JoinErr_Default(w) ==
    /\ mpc = "join_" \o w
    /\ ipc[w] = "panicked"
    /\ answer' = [answer EXCEPT ![w] = <<0, 0>>]
    /\ out' = Append(out, <<Label(w), 0, 0>>)
    /\ mpc' = After(mpc)
    /\ UNCHANGED <<cfg, steps, time, total, serialized, now, args, ipc,
                   locals, ret, hist, finished>>

\* join() returns Err for a thread that panicked, and unwrap() panics in main
JoinErr(w) ==
    /\ mpc = "join_" \o w
    /\ ipc[w] = "panicked"
    /\ out' = Append(out, <<"panicked at unwrap", Label(w)>>)
    /\ mpc' = "panicked"
    /\ UNCHANGED <<cfg, steps, time, total, serialized, answer, now, args, ipc,
                   locals, ret, hist, finished>>

\* let total = time::precise_time_s() - time; println!(...); let mut serialized = 0.0;
EndClock ==
    /\ mpc = "total"
    /\ \E s \in now..MaxClock :
        /\ now' = s
        /\ total' = s - time
    /\ serialized' = 0
    /\ out' = Append(out, <<"Serialized Execution">>)
    /\ mpc' = After(mpc)
    /\ UNCHANGED <<cfg, steps, time, answer, args, ipc, locals, ret, hist, finished>>

\* serial_funcs::x(Y0,T0,steps,H,&serial_funcs::regular_de): the call
CallSerial(v) ==
    /\ mpc = "serial_" \o v
    /\ ipc[v] = "idle"
    /\ args' = [args EXCEPT ![v] = CallArgs("regular_de")]
    /\ ipc' = [ipc EXCEPT ![v] = "called"]
    /\ UNCHANGED <<mainVars, out, now, locals, ret, hist, finished>>

\* serialized += serial_funcs::x(...).1;
ReturnSerial(v) ==
    /\ mpc = "serial_" \o v
    /\ ipc[v] = "done"
    /\ serialized' = serialized + ret[v][2]
    /\ mpc' = After(mpc)
    /\ UNCHANGED <<cfg, steps, time, total, answer, out, now, args, ipc,
                   locals, ret, hist, finished>>

\* println!("---RESULTS---"); and the three totals
Report ==
    /\ mpc = "report"
    /\ out' = Append(out, <<"RESULTS", total, serialized, serialized - total>>)
    /\ mpc' = After(mpc)
    /\ UNCHANGED <<cfg, steps, time, total, serialized, answer, now, args, ipc,
                   locals, ret, hist, finished>>

MainStep ==
    \/ ComputeSteps
    \/ StartClock
    \/ \E w \in Threads : Spawn(w)
    \/ \E w \in Threads : JoinOk(w)
    \/ \E w \in Threads : JoinErr(w)
    \/ EndClock
    \/ \E v \in Serials : CallSerial(v)
    \/ \E v \in Serials : ReturnSerial(v)
    \/ Report

Next ==
    \/ MainStep
    \/ \E v \in Invs : InvStep(v)
    \/ \E w \in Threads : Abort(w)

Spec == Init /\ [][Next]_vars

InvalidConfig == cfg.H <= 0 \/ cfg.T_END <= cfg.T0

\* The runs with a valid configuration, under the scheduling the operating
\* system guarantees: every thread that can run, main included, eventually does.
InitFair == Init /\ ~InvalidConfig

FairSpec ==
    /\ InitFair /\ [][Next]_vars
    /\ WF_vars(MainStep)
    /\ \A v \in Invs : WF_vars(InvStep(v))

\* ---------------------------------------------- one integrator invocation
StepSizes == {6, 12}
StartValues == {0, 1}

InitUnit ==
    /\ cfg = [Y0 |-> 0, T0 |-> 0, T_END |-> 0, H |-> 0]
    /\ mpc = "unit"
    /\ steps = 0 /\ time = 0 /\ total = 0 /\ serialized = 0
    /\ answer = [w \in Threads |-> None]
    /\ \E v \in Invs :
        /\ ipc = [u \in Invs |-> IF u = v THEN "called" ELSE "idle"]
        /\ \E a \in [y0 : StartValues, t0 : StartValues, steps : 0..MaxSteps,
                     h : StepSizes, de : DeFamily] :
            args = [u \in Invs |-> IF u = v THEN a ELSE NoArgs]
    /\ InitLocals

NextUnit == \E v \in Invs : InvStep(v)

SpecUnit == InitUnit /\ [][NextUnit]_vars

\* ------------------------------------------------- the stepping formulas
\* One step of each method as the recurrence states it, from the time t and the
\* state y held at the start of the step.
EulerFormula(f, t, y, h) == FAdd(y, FMul(h, Apply(f, t, y)))

HeunFormula(f, t, y, h) ==
    LET K1 == Apply(f, t, y)
        Predict == FAdd(y, FMul(h, K1))
    IN FAdd(y, FMul(Half(h), FAdd(K1, Apply(f, FAdd(t, h), Predict))))

RkFormula(f, t, y, h) ==
    LET K1 == Apply(f, t, y)
        K2 == Apply(f, FAdd(t, Half(h)), FAdd(y, FMul(Half(h), K1)))
        K3 == Apply(f, FAdd(t, Half(h)), FAdd(y, FMul(Half(h), K2)))
        K4 == Apply(f, FAdd(t, h), FAdd(y, FMul(h, K3)))
    IN FAdd(y, FMul(Sixth(h), FAdd(FAdd(FAdd(K1, FMul(2, K2)), FMul(2, K3)), K4)))

Formula(m, f, t, y, h) ==
    CASE m = "euler" -> EulerFormula(f, t, y, h)
      [] m = "heun" -> HeunFormula(f, t, y, h)
      [] m = "rk" -> RkFormula(f, t, y, h)

\* The state after n steps of method m from (t, y).
RECURSIVE Recurrence(_, _, _, _, _, _)
Recurrence(m, f, t, y, h, n) ==
    IF n = 0 THEN y
    ELSE Recurrence(m, f, FAdd(t, h), Formula(m, f, t, y, h), h, n - 1)

\* invocation v has updated ycurrent in its current iteration and not yet tcurrent
Updated(v) == ipc[v] = "upd_t"
\* invocation v has completed an iteration and stands at the loop head
Stepped(v) == ipc[v] \in {"loop", "done"} /\ i[v] > 0

\* What one iteration of method m does to (tcurrent, ycurrent): the new state is
\* the formula applied to the time and state of the iteration's start, and the
\* time is advanced by h after the state.
IterationIs(m) ==
    \A v \in Invs : Method(v) = m =>
        /\ Updated(v) =>
            /\ ycurrent[v] = Formula(m, args[v].de, tI[v], yI[v], args[v].h)
            /\ tcurrent[v] = tI[v]
        /\ Stepped(v) =>
            /\ ycurrent[v] = Formula(m, args[v].de, tI[v], yI[v], args[v].h)
            /\ tcurrent[v] = FAdd(tI[v], args[v].h)

\* C1: every iteration of improved_euler, in both copies, takes (t_i, y_i) to
\* t_i + h and y_i + (h/2)*(k1 + f(t_i + h, y_i + h*k1)) with k1 = f(t_i, y_i):
\* both the second evaluation and the sum use the y_i of the iteration's start.
C1_HeunIteration == IterationIs("heun")

\* improved_euler with a derivative function that reads t and y, two iterations
\* completed and a state that moved.
C1_Witness ==
    /\ ipc["sh"] = "loop" /\ i["sh"] = 2 /\ args["sh"].de = "mod_ty"
    /\ ycurrent["sh"] # NaN /\ ycurrent["sh"] # yI["sh"] /\ k2["sh"] # k1["sh"]

\* C2: every iteration of runge_kutta, in both copies, takes (t_i, y_i) to
\* t_i + h and y_i + (h/6)*(k1 + 2*k2 + 2*k3 + k4), the four stages evaluated
\* from the t_i and y_i of the iteration's start.
C2_RkIteration == IterationIs("rk")

C2_Witness ==
    \E v \in {"tr"} :
        /\ ipc[v] = "loop" /\ i[v] = 2 /\ args[v].de = "mod_ty"
        /\ ycurrent[v] # NaN /\ ycurrent[v] # yI[v]
        /\ Cardinality({k1[v], k2[v], k3[v], k4[v]}) >= 3

\* C3: every iteration of euler_method, in both copies, takes (t_i, y_i) to
\* y_i + h*f(t_i, y_i) and t_i + h, the time advanced after the state, and the
\* returned state is the recurrence applied steps times from (t0, y0).
C3_EulerIteration ==
    /\ IterationIs("euler")
    /\ \A v \in Invs : (Method(v) = "euler" /\ ipc[v] = "done") =>
        ret[v][1] = Recurrence("euler", args[v].de, args[v].t0, args[v].y0,
                               args[v].h, args[v].steps)

C3_Witness ==
    \E v \in {"te", "se"} :
        /\ ipc[v] = "done" /\ args[v].steps = 3 /\ args[v].de = "mod_ty"
        /\ ret[v][1] # NaN /\ ret[v][1] # args[v].y0

\* C4: every invocation ends after exactly steps iterations: the loop counter
\* alone decides, tcurrent is advanced once per iteration, and an invocation
\* that has not returned can always take its next step.
C4_ExactlyNSteps ==
    \A v \in Invs :
        /\ i[v] <= args[v].steps
        /\ tadv[v] = i[v]
        /\ ipc[v] = "done" => (i[v] = args[v].steps /\ tadv[v] = args[v].steps)
        /\ ipc[v] \notin {"idle", "done"} => ENABLED InvStep(v)

C4_Witness ==
    \E v \in Invs :
        /\ Method(v) = "rk" /\ ipc[v] = "done"
        /\ args[v].steps = 1 /\ tadv[v] = 1 /\ i[v] = 1

\* the evaluations of the derivative function one step of a method makes
Stages(v) ==
    CASE Method(v) = "euler" -> 1
      [] Method(v) = "heun" -> 2
      [] Method(v) = "rk" -> 4

\* C5 as stated: an invocation of any of the three methods with step count n
\* makes exactly n evaluations of the derivative function.
C5_Original ==
    \A v \in Invs : ipc[v] = "done" => calls[v] = args[v].steps

\* C5, amended: an invocation with step count n makes exactly n evaluations
\* with euler_method, 2n with improved_euler and 4n with runge_kutta.
C5_EvaluationsPerStep ==
    \A v \in Invs : ipc[v] = "done" => calls[v] = Stages(v) * args[v].steps

C5_Witness ==
    \E v \in Invs :
        /\ Method(v) = "heun" /\ ipc[v] = "done"
        /\ args[v].steps = 2 /\ calls[v] = 4

\* ------------------------------------------------------------ the harness
Partner(w) == CHOOSE v \in Serials : Method(v) = Method(w)

\* C6: for each method the state the thread returns equals the state the serial
\* invocation returns, under every interleaving; at every loop head an
\* invocation's ycurrent and tcurrent are what its own parameters and its own
\* count of iterations determine.
C6_SameFinalState ==
    /\ \A w \in Threads :
        (ipc[w] = "done" /\ ipc[Partner(w)] = "done") => ret[w][1] = ret[Partner(w)][1]
    /\ \A v \in Invs : ipc[v] \in {"loop", "done"} =>
        /\ ycurrent[v] = Recurrence(Method(v), args[v].de, args[v].t0, args[v].y0,
                                     args[v].h, i[v])
        /\ tcurrent[v] = args[v].t0 + i[v] * args[v].h

C6_Witness ==
    /\ ipc["te"] = "done" /\ ipc["se"] = "done" /\ steps = 2
    /\ ret["te"][1] = ret["se"][1] /\ ret["se"][1] \notin {NaN, cfg.Y0}
    /\ finished = <<"tr", "te", "th">>

Printed(tag) == \E n \in 1..Len(out) : out[n][1] = tag

\* C7: a thread that terminated abnormally never yields an answer, a printed
\* value or duration, or the final report; main does not get past its join,
\* and when main joins it, main ends in a panic raised at that join.
C7_FailureSurfaced ==
    /\ \A w \in Threads : ipc[w] = "panicked" =>
        /\ answer[w] = None
        /\ ~Past("join_" \o w)
        /\ ~Printed(Label(w))
        /\ ~Printed("RESULTS")
    /\ mpc = "panicked" =>
        \E w \in Threads :
            /\ ipc[w] = "panicked"
            /\ out[Len(out)] = <<"panicked at unwrap", Label(w)>>

C7_Witness ==
    /\ mpc = "panicked" /\ ipc["th"] = "panicked"
    /\ answer["te"] # None /\ ipc["tr"] = "done"

\* C8 as stated: with an invalid configuration (H <= 0 or T_END <= T0) no
\* integrator is ever started.
C8_FailFast == InvalidConfig => \A v \in Invs : ipc[v] = "idle"

AllJoined == \A w \in Threads : answer[w] # None /\ answer[w] = ret[w]

\* C9: whatever the order in which the threads finish, main, joining them in
\* the order Euler, Heun, Runge Kutta, obtains each thread's own result and
\* reaches the serial phase, unless a thread terminated abnormally.
C9_JoinsInAnyOrder ==
    /\ [](\A w \in Threads : answer[w] # None => (ipc[w] = "done" /\ answer[w] = ret[w]))
    /\ (mpc = "join_te") ~>
         \/ mpc = "serial_se" /\ AllJoined
         \/ \E w \in Threads : ipc[w] = "panicked"

C9_Witness ==
    /\ mpc = "serial_se" /\ AllJoined
    /\ finished = <<"tr", "th", "te">> /\ steps = 2

\* C10: the start sample is taken before any thread is dispatched, the end
\* sample after all three are joined, so total is at least every thread's
\* duration; no serial invocation starts before the end sample.
C10_ClockBracketsThreads ==
    /\ \A v \in Invs : ipc[v] # "idle" => ~Before("clock")
    /\ \A w \in Threads : ipc[w] \in {"loop", "k1", "k2", "k3", "k4", "upd_t"} =>
        start[w] >= time
    /\ Past("total") =>
        \A w \in Threads : answer[w] # None /\ total >= answer[w][2]
    /\ \A v \in Serials : ipc[v] # "idle" => ~Before("total")

C10_Witness ==
    /\ mpc = "exit" /\ total = 1
    /\ answer["tr"][2] = 1 /\ answer["te"][2] = 0

====
